---- MODULE Spec2Model ----
(***************************************************************************)
(* A model of src/editor.c, the command line text file editor.  One       *)
(* behaviour is a sequence of invocations of the program on one target    *)
(* file; the state is what is on disk (the target file, the scratch file  *)
(* tempeditor.tmp, the log editorback.log), the handles the running       *)
(* invocation holds and the position it has reached.                      *)
(*                                                                         *)
(* Files are sequences of bytes 0..255.  The byte loops of the program     *)
(* store getc()'s int in a `char c` and compare it to EOF; the model keeps *)
(* that 8 bit width (ToChar) with char signed, as gcc has it on x86-64     *)
(* Linux, the platform the program is written for.                         *)
(*                                                                         *)
(* The size limits of the program are scaled down so that their cases are  *)
(* reachable with short files: MAX (1024 in the source), CLOG_BUFFER (200  *)
(* in the source) and LOGLEN (2560 in the source).  Every relation the     *)
(* code states between them (MAX - 2 for verify_lines, MAX - 1 for fgets,  *)
(* CLOG_BUFFER - 10 kept entries, LOGLEN - 2 and LOGLEN - 1 for the log)   *)
(* is kept as written.                                                     *)
(***************************************************************************)
EXTENDS Integers, Sequences, FiniteSets, TLC

VARIABLES
    target,   \* bytes of the target file (argv[2]); meaningful while "target" \in exists
    temp,     \* bytes of the scratch file TEMPF
    log,      \* the log file LOGF, as its sequence of physical lines
    exists,   \* the paths that exist on disk, a subset of {"target", "temp", "log"}
    open,     \* the FILE handles the running invocation holds: "fptr", "temp"
    pc,       \* position of the running invocation ("idle": none is running)
    op,       \* the validated arguments of the running invocation
    lines,    \* the local `lines` of the running function (cached line count)
    status,   \* how the invocation ended ("run" while it runs)
    printed,  \* the total a replace or a search prints on stdout
    F0,       \* bytes of the target file when the invocation started
    log0,     \* the log when the invocation started
    prev,     \* the previous invocation: its arguments, its F0 and its status
    budget,   \* invocations still to be started in this behaviour
    shown,    \* what display_log, search, regex_search or show_line has printed
    kept,     \* the lines of the log truncate_log has written to the scratch file
    hist,     \* every line ever appended to the log, oldest first
    fpos,     \* show_line: the offset of fptr in the target file, from 1
    since,    \* change_log calls that wrote their entry and did not start a
              \* truncation, since the last truncation of the log; -1 while
              \* the log has not been truncated
    script    \* <<>>: any command line may be given; <<o>>: the behaviour
              \* repeats the command line o

vars == <<target, temp, log, exists, open, pc, op, lines, status, printed,
          F0, log0, prev, budget, shown, kept, hist, fpos, since, script>>

-----------------------------------------------------------------------------
(* Bytes *)

EOF == -1
NUL == 0
NL == 10
CR == 13
\* sample bytes: 'X', 'b', '-' and the byte 0xFF
Sample == <<88, 98, 45, 255>>
LX == Sample[1]
LB == Sample[2]
LDash == Sample[3]
FF == Sample[4]

\* enum { MAX, CLOG_BUFFER, LOGLEN }, scaled (see the head of the module)
MAX == 4
CLOG_BUFFER == 14
LOGLEN == 128

\* size_t arithmetic wraps; the width is scaled to 16 bits
SizeMod == 2 ^ 16

\* Bounds of the model
MaxLen == 3
MaxLineNo == 5
\* initial logs of SpecLog: entries after the special one, and how far below
\* CLOG_BUFFER their sizes start
MaxTail == 1
LogSpread == 4
\* the invocations of a behaviour that repeats one command line
MaxRuns == 7

\* `char c = getc(f)`: the int 0..255 or EOF, converted to a signed 8 bit char
ToChar(v) == IF v >= 128 THEN v - 256 ELSE v

\* fputc(c, f) writes (unsigned char) c
ToByte(c) == (c + 256) % 256

\* getc at 1-based position i of the bytes f
Getc(f, i) == IF i > Len(f) THEN EOF ELSE f[i]

SeqsUpTo(S, n) == UNION {[1..k -> S] : k \in 0..n}

-----------------------------------------------------------------------------
(* LineScanner *)

RECURSIVE CountLoop(_, _, _, _)
CountLoop(f, i, n, first) ==
    LET c  == ToChar(Getc(f, i))
        n1 == IF first /\ c # EOF THEN n + 1 ELSE n
        f1 == first /\ c = EOF
        n2 == IF c = NL THEN n1 + 1 ELSE n1
    IN  IF c # EOF THEN CountLoop(f, i + 1, n2, f1) ELSE n2

count_lines(f) == CountLoop(f, 1, 0, TRUE)

RECURSIVE VerifyLoop(_, _, _, _, _, _)
VerifyLoop(f, i, n, linelen, first, max_val) ==
    LET c   == ToChar(Getc(f, i))
        ll1 == IF c # EOF THEN linelen + 1 ELSE linelen
        n1  == IF c # EOF /\ first THEN n + 1 ELSE n
        f1  == first /\ c = EOF
    IN  IF c = NL /\ ll1 > max_val THEN -1
        ELSE IF c = NUL THEN -1
        ELSE IF c # EOF
             THEN VerifyLoop(f, i + 1, IF c = NL THEN n1 + 1 ELSE n1,
                             IF c = NL THEN 0 ELSE ll1, f1, max_val)
             ELSE n1

\* -1 when a terminated line is longer than max_val or a NUL byte is read
verify_lines(f, max_val) == VerifyLoop(f, 1, 0, 0, TRUE, max_val)

-----------------------------------------------------------------------------
(* LineEditor: the byte loops of del_line, ins_line, rep_line, append_line *)

\* del_line's do-while: the bytes written to the scratch file
RECURSIVE DelLoop(_, _, _, _, _)
DelLoop(f, i, count, lineno, out) ==
    LET c   == ToChar(Getc(f, i))
        cnt == IF c = NL THEN count + 1 ELSE count
        o   == IF cnt # lineno /\ c # EOF /\ (cnt # lineno + 1 \/ c # NL)
               THEN Append(out, ToByte(c)) ELSE out
    IN  IF c # EOF THEN DelLoop(f, i + 1, cnt, lineno, o) ELSE o

del_line_copy(f, lineno) == DelLoop(f, 1, 1, lineno, <<>>)

\* ins_line's do-while; c is the value of `char c` when the iteration starts
\* (indeterminate in the first one: the declaration does not initialise it)
RECURSIVE InsLoop(_, _, _, _, _, _, _)
InsLoop(f, i, count, lineno, line, out, c) ==
    LET rd   == count # lineno
        c1   == IF rd THEN ToChar(Getc(f, i)) ELSE c
        i1   == IF rd THEN i + 1 ELSE i
        o1   == IF rd /\ c1 # EOF THEN Append(out, ToByte(c1)) ELSE out
        cnt1 == IF rd /\ c1 = NL THEN count + 1 ELSE count
        hit  == cnt1 = lineno
        o2   == IF hit THEN o1 \o line \o <<NL>> ELSE o1
        cnt2 == IF hit THEN cnt1 + 1 ELSE cnt1
    IN  IF c1 # EOF THEN InsLoop(f, i1, cnt2, lineno, line, o2, c1) ELSE o2

ins_line_copy(f, line, lineno, c0) == InsLoop(f, 1, 1, lineno, line, <<>>, c0)

\* the values an uninitialised `char c` is modelled to hold: EOF or not EOF
Indeterminate == {EOF, NUL}

\* rep_line's inner do-while: read through the end of the line
RECURSIVE SkipLoop(_, _)
SkipLoop(f, i) ==
    LET c == ToChar(Getc(f, i))
    IN  IF c # NL /\ c # EOF THEN SkipLoop(f, i + 1) ELSE [pos |-> i + 1, c |-> c]

\* rep_line's outer do-while
RECURSIVE RepLoop(_, _, _, _, _, _, _)
RepLoop(f, i, count, lineno, line, out, c) ==
    LET rd   == count # lineno
        c1   == IF rd THEN ToChar(Getc(f, i)) ELSE c
        i1   == IF rd THEN i + 1 ELSE i
        o1   == IF rd THEN Append(out, ToByte(c1)) ELSE out
        cnt1 == IF rd /\ c1 = NL THEN count + 1 ELSE count
        hit  == cnt1 = lineno
        sk   == SkipLoop(f, i1)
        c2   == IF hit THEN sk.c ELSE c1
        i2   == IF hit THEN sk.pos ELSE i1
        o2   == IF hit
                THEN o1 \o line \o (IF sk.c = NL THEN <<NL>> ELSE <<>>)
                ELSE o1
        cnt2 == IF hit THEN cnt1 + 1 ELSE cnt1
    IN  IF c2 # EOF THEN RepLoop(f, i2, cnt2, lineno, line, o2, c2) ELSE o2

rep_line_copy(f, line, lineno) == RepLoop(f, 1, 1, lineno, line, <<>>, NUL)

\* is_empty: st_size <= 1
is_empty(f) == Len(f) <= 1

\* append_line's write in append mode
append_line_write(f, line) == IF is_empty(f) THEN f \o line ELSE f \o <<NL>> \o line

-----------------------------------------------------------------------------
(* C strings and the line buffered reads of replace *)

\* the least element of a non-empty set of numbers
Least(S) == CHOOSE x \in S : \A y \in S : x <= y

\* the C string a buffer holds: its bytes before the first NUL
CStr(buf) ==
    LET Z == {i \in 1..Len(buf) : buf[i] = NUL}
    IN  IF Z = {} THEN buf ELSE SubSeq(buf, 1, Least(Z) - 1)

\* fgets(buf, size, f) from position i: at most size - 1 bytes, through a newline
RECURSIVE FgetsLoop(_, _, _, _)
FgetsLoop(f, i, n, buf) ==
    IF n = 0 \/ i > Len(f) THEN [buf |-> buf, pos |-> i]
    ELSE IF f[i] = NL THEN [buf |-> Append(buf, NL), pos |-> i + 1]
    ELSE FgetsLoop(f, i + 1, n - 1, Append(buf, f[i]))

\* buf = <<>> stands for the NULL fgets returns at end of file
fgets(f, i, size) == FgetsLoop(f, i, size - 1, <<>>)

\* strstr(s + p - 1, key): 1-based index of the first occurrence at or after
\* p, 0 for NULL
strstr(s, key, p) ==
    LET M == {q \in p..(Len(s) - Len(key) + 1) :
                 \A j \in 1..Len(key) : s[q + j - 1] = key[j]}
    IN  IF M = {} THEN 0 ELSE Least(M)

\* replace's counting loop: strstr, then advance by strlen(key)
RECURSIVE CountOcc(_, _, _, _)
CountOcc(s, key, p, n) ==
    LET q == strstr(s, key, p)
    IN  IF q = 0 THEN n ELSE CountOcc(s, key, q + Len(key), n + 1)

\* "Removing trailing newline chars": drop trailing '\n' and '\r'
RECURSIVE Strip(_)
Strip(s) ==
    IF Len(s) > 0 /\ (s[Len(s)] = NL \/ s[Len(s)] = CR)
    THEN Strip(SubSeq(s, 1, Len(s) - 1)) ELSE s

\* string_sub's while (occur--) loop from position p of line.  ub: strstr
\* returned NULL and the code went on to compute with it (undefined behaviour)
RECURSIVE SubLoop(_, _, _, _, _, _)
SubLoop(line, p, key, sub, occur, out) ==
    IF occur = 0 THEN [ub |-> FALSE, text |-> out \o SubSeq(line, p, Len(line))]
    ELSE LET q == strstr(line, key, p)
         IN  IF q = 0 THEN [ub |-> TRUE, text |-> out]
             ELSE SubLoop(line, q + Len(key), key, sub, occur - 1,
                          out \o SubSeq(line, p, q - 1) \o sub)

\* string_sub: NULL (null) for an empty key or a failed malloc
string_sub(line, key, sub, occur, mallocOk) ==
    IF Len(key) = 0 \/ ~mallocOk THEN [null |-> TRUE, ub |-> FALSE, text |-> <<>>]
    ELSE [null |-> FALSE] @@ SubLoop(line, 1, key, sub, occur, <<>>)

\* replace's while (fgets ...) loop from position pos: the bytes written to the
\* scratch file and the running total.  end: "eof" (the loop ran to the end of
\* the file), "null" (string_sub returned NULL), "ub" (as in SubLoop)
RECURSIVE ReplaceLoop(_, _, _, _, _, _, _)
ReplaceLoop(f, pos, key, sub, out, count, mallocOk) ==
    LET g == fgets(f, pos, MAX - 1)
    IN  IF g.buf = <<>> THEN [end |-> "eof", out |-> out, count |-> count]
        ELSE LET line == CStr(g.buf)
                 n    == CountOcc(line, key, 1, 0)
                 r    == string_sub(Strip(line), key, sub, n, mallocOk)
             IN  IF n = 0
                 THEN ReplaceLoop(f, g.pos, key, sub, out \o line, count, mallocOk)
                 ELSE IF r.null
                 THEN [end |-> "null", out |-> out, count |-> count + n]
                 ELSE IF r.ub
                 THEN [end |-> "ub", out |-> out, count |-> count + n]
                 ELSE ReplaceLoop(f, g.pos, key, sub,
                                  out \o r.text \o <<NL>>, count + n, mallocOk)

replace_scan(f, key, sub, mallocOk) == ReplaceLoop(f, 1, key, sub, <<>>, 0, mallocOk)

\* search's while (fgets ...) loop from position pos: for every line read the
\* counter lines, the trailing terminators stripped, the occurrences counted;
\* out holds what is printed for the lines with an occurrence, count the total
RECURSIVE SearchLoop(_, _, _, _, _, _)
SearchLoop(f, pos, key, n, out, count) ==
    LET g == fgets(f, pos, MAX - 1)
    IN  IF g.buf = <<>> THEN [out |-> out, count |-> count]
        ELSE LET line == Strip(CStr(g.buf))
                 sub  == CountOcc(line, key, 1, 0)
             IN  SearchLoop(f, g.pos, key, n + 1,
                            IF sub # 0
                            THEN Append(out, [n |-> n + 1, cnt |-> sub, text |-> line])
                            ELSE out,
                            count + sub)

search_scan(f, key) == SearchLoop(f, 1, key, 0, <<>>, 0)

\* the patterns given to regex_search: "(" (an unmatched parenthesis, which
\* regcomp rejects with REG_EPAREN) and the one-letter pattern "X"
LParen == <<40>>
Patterns == {LParen, <<LX>>}

\* regcomp(&reg, key, REG_EXTENDED | REG_NOSUB | REG_ICASE) on Patterns: 0, or
\* a non-zero error code
regcomp(key) == IF key = LParen THEN 8 ELSE 0

\* REG_ICASE: a letter matches in either case
Fold(b) == IF b \in 97..122 THEN b - 32 ELSE b

\* regexec of a pattern of ordinary characters: 0 when the line holds it
regexec(key, line) ==
    IF \E q \in 1..(Len(line) - Len(key) + 1) :
           \A j \in 1..Len(key) : Fold(line[q + j - 1]) = Fold(key[j])
    THEN 0 ELSE 1

\* regex_search's while (fgets ...) loop: the lines printed, with their numbers
RECURSIVE RegexLoop(_, _, _, _, _)
RegexLoop(f, pos, key, n, out) ==
    LET g == fgets(f, pos, MAX - 1)
    IN  IF g.buf = <<>> THEN out
        ELSE LET line == Strip(CStr(g.buf))
             IN  RegexLoop(f, g.pos, key, n + 1,
                           IF regexec(key, line) = 0
                           THEN Append(out, [n |-> n + 1, text |-> line])
                           ELSE out)

\* show_line's do-while from position i: the bytes printed, up to the end of
\* the line or of the file
RECURSIVE ShowLoop(_, _, _)
ShowLoop(f, i, out) ==
    LET c == ToChar(Getc(f, i))
    IN  IF c = NL \/ c = EOF THEN out
        ELSE ShowLoop(f, i + 1, IF c # CR THEN Append(out, ToByte(c)) ELSE out)

-----------------------------------------------------------------------------
(* AuditLog *)

\* argv[2] of the file operations ("f") and the path of another file ("g")
Path == <<102>>
OtherPath == <<103>>

\* the pieces of the format strings of change_log and of the snprintf(msg, ...)
\* calls.  '[2026-11-03 02:36:18] ': the time stamp, 22 bytes, digits only
Stamp == <<91, 50, 48, 50, 54, 45, 49, 49, 45, 48, 51, 32, 48, 50, 58, 51, 54, 58, 49, 56, 93, 32>>
\* "File '"
FmtFile == <<70, 105, 108, 101, 32, 39>>
\* "'"
Apos == <<39>>
\* ": "
FmtColon == <<58, 32>>
\* 'Line "'
FmtLineQ == <<76, 105, 110, 101, 32, 34>>
\* 'Line '
FmtLine == <<76, 105, 110, 101, 32>>
\* '" appended'
FmtAppended == <<34, 32, 97, 112, 112, 101, 110, 100, 101, 100>>
\* ' deleted'
FmtDeleted == <<32, 100, 101, 108, 101, 116, 101, 100>>
\* '" inserted at Line '
FmtInsertedAt == <<34, 32, 105, 110, 115, 101, 114, 116, 101, 100, 32, 97, 116, 32, 76, 105, 110, 101, 32>>
\* ' was replaced by "'
FmtReplacedByQ == <<32, 119, 97, 115, 32, 114, 101, 112, 108, 97, 99, 101, 100, 32, 98, 121, 32, 34>>
\* 'Instances of "'
FmtInstancesQ == <<73, 110, 115, 116, 97, 110, 99, 101, 115, 32, 111, 102, 32, 34>>
\* '" replaced by "'
FmtReplBy == <<34, 32, 114, 101, 112, 108, 97, 99, 101, 100, 32, 98, 121, 32, 34>>
\* '"'
DQuote == <<34>>
\* ' | Lines After = '
FmtLinesAfter == <<32, 124, 32, 76, 105, 110, 101, 115, 32, 65, 102, 116, 101, 114, 32, 61, 32>>

\* %lu
RECURSIVE Dec(_)
Dec(n) == IF n < 10 THEN <<48 + n>> ELSE Dec(n \div 10) \o <<48 + (n % 10)>>

NLs(s) == Cardinality({i \in 1..Len(s) : s[i] = NL})

\* the physical lines fprintf writes for one entry: a newline byte inside a
\* quoted argument breaks the entry into several lines of the log file
LogLines(e) == [i \in 1..(1 + NLs(e.text) + NLs(e.sub)) |-> [ent |-> e, part |-> i - 1]]

\* an entry written by an earlier invocation (a del_line of line i)
PriorEntry(i) ==
    [op |-> "del_line", path |-> Path, lineno |-> i, text |-> <<>>, sub |-> <<>>,
     after |-> 0]

PriorLog(k) == [i \in 1..k |-> [ent |-> PriorEntry(i), part |-> 0]]

\* the msg each function formats for change_log
LogEntry(o, n) ==
    [op     |-> o.name,
     path   |-> o.path,
     lineno |-> o.lineno,
     text   |-> IF o.name = "replace" THEN o.key ELSE o.line,
     sub    |-> o.sub,
     after  |-> CASE o.name = "del_line" -> (n - 1) % SizeMod
                  [] o.name = "ins_line" -> (n + 1) % SizeMod
                  [] OTHER -> n]

\* the bytes change_log's fprintf writes for the entry e: the stamp, the msg of
\* the function that logged, a newline.  (msg is cut at LOGLEN - 1 bytes by
\* snprintf; the arguments are too short for that, in the source as here.)
Render(e) ==
    Stamp \o FmtFile \o e.path \o Apos \o FmtColon
    \o (CASE e.op = "append_line" -> FmtLineQ \o e.text \o FmtAppended
          [] e.op = "del_line" -> FmtLine \o Dec(e.lineno) \o FmtDeleted
          [] e.op = "ins_line" -> FmtLineQ \o e.text \o FmtInsertedAt \o Dec(e.lineno)
          [] e.op = "rep_line" -> FmtLine \o Dec(e.lineno) \o FmtReplacedByQ \o e.text \o DQuote
          [] OTHER -> FmtInstancesQ \o e.text \o FmtReplBy \o e.sub \o DQuote)
    \o FmtLinesAfter \o Dec(e.after) \o <<NL>>

\* the k-th line (from 0) of the bytes b, which end with a newline; the
\* newline of the line is included
Piece(b, k) ==
    LET P    == {i \in 1..Len(b) : b[i] = NL}
        nth(j) == CHOOSE q \in P : Cardinality({r \in P : r < q}) = j
    IN  SubSeq(b, IF k = 0 THEN 1 ELSE nth(k - 1) + 1, nth(k))

\* the bytes of one physical line of the log.  A line some other program put
\* into the log ("foreign") holds the bytes it was given
LineBytes(l) ==
    IF l.ent.op = "foreign" THEN l.ent.text \o <<NL>>
    ELSE Piece(Render(l.ent), l.part)

RECURSIVE LogBytes(_)
LogBytes(lg) == IF lg = <<>> THEN <<>> ELSE LineBytes(Head(lg)) \o LogBytes(Tail(lg))

\* where the scan of verify_lines ends inside the line b: at its first NUL
\* byte or at its first byte that the `char c` takes for EOF; 0 if at neither
StopAt(b) ==
    LET S == {i \in 1..Len(b) : b[i] = NUL \/ ToChar(b[i]) = EOF}
    IN  IF S = {} THEN 0 ELSE Least(S)

\* verify_lines(&fptr, LOGLEN - 2) on the log file, a line at a time.  The
\* scan runs to the first line that stops it: -1 for a NUL byte and for a
\* line longer than max_val at its newline; the count so far for a byte taken
\* for EOF (one per newline read, and one for the first byte of the file).  At
\* the end of the file the count is the number of lines plus one.
LogVerify(lg) ==
    LET K == {k \in 1..Len(lg) :
                 \E b \in {LineBytes(lg[k])} : StopAt(b) # 0 \/ Len(b) > LOGLEN - 2}
    IN  IF K = {} THEN (IF lg = <<>> THEN 0 ELSE Len(lg) + 1)
        ELSE LET k == Least(K)
                 b == LineBytes(lg[k])
                 s == StopAt(b)
             IN  IF s = 0 THEN -1
                 ELSE IF b[s] = NUL THEN -1
                 ELSE IF k = 1 /\ s = 1 THEN 0
                 ELSE k

\* truncate_log's while (fgets ...) loop: the lines written to the scratch
\* file.  Every line that reaches it fits one fgets(line, LOGLEN - 1, fptr)
RECURSIVE TruncLoop(_, _, _, _)
TruncLoop(lg, i, logs, out) ==
    IF i > Len(lg) THEN out
    ELSE IF logs > CLOG_BUFFER - 10 THEN TruncLoop(lg, i + 1, logs - 1, out)
    ELSE TruncLoop(lg, i + 1, logs, Append(out, lg[i]))

\* strchr(s, ch): the index of the first ch in s, 0 for NULL
strchr(s, ch) ==
    IF \E i \in 1..Len(s) : s[i] = ch
    THEN Least({i \in 1..Len(s) : s[i] = ch})
    ELSE 0

\* display_log's snprintf(key, MAX, "File '%s'", fpath).  A path has at most
\* MAXF bytes and MAXF + 8 < MAX in the source, so the key is never cut; the
\* scaled MAX is not applied to it.
DisplayKey(fpath) == FmtFile \o fpath \o Apos

\* the body of display_log's while (fgets ...) loop: is the line l printed?
\* fpath = <<>> stands for NULL (no filter)
DisplayLine(l, fpath) ==
    LET line  == CStr(LineBytes(l))
        found == strstr(line, DisplayKey(fpath), 1)
        quote == strchr(line, DQuote[1])
    IN  IF fpath = <<>> THEN TRUE
        ELSE IF found # 0
        THEN (IF quote # 0 THEN found < quote ELSE TRUE)
        ELSE FALSE

\* display_log's loop over the lines of the log: the lines it prints, in order
DisplayLoop(lg, fpath) ==
    LET pr(l) == DisplayLine(l, fpath) IN SelectSeq(lg, pr)

-----------------------------------------------------------------------------
(* Inputs *)

FileBytes == {NUL, NL, CR, LX, FF}
Texts == {<<>>, <<LB>>}
Keys == {<<>>, <<LX>>, <<LX, LX>>, <<LX, NL>>}
Subs == {<<>>, <<LDash>>, <<LX, LX>>}

NoOp ==
    [name |-> "none", path |-> Path, line |-> <<>>, lineno |-> 0, key |-> <<>>,
     sub |-> <<>>]

\* the command lines: flag, strings, line number (parse_num accepts 0)
Invocations ==
    {[NoOp EXCEPT !.name = "del_line", !.lineno = n] : n \in 0..MaxLineNo}
    \cup {[NoOp EXCEPT !.name = nm, !.line = x, !.lineno = n] :
             nm \in {"ins_line", "rep_line"}, x \in Texts, n \in 0..MaxLineNo}
    \cup {[NoOp EXCEPT !.name = "append_line", !.line = x] : x \in Texts}
    \cup {[NoOp EXCEPT !.name = "replace", !.key = k, !.sub = u] :
             k \in Keys, u \in Subs}
    \cup {[NoOp EXCEPT !.name = "display_log", !.path = f] :
             f \in {<<>>, Path, OtherPath}}
    \cup {[NoOp EXCEPT !.name = "show_line", !.lineno = n] : n \in 0..MaxLineNo}
    \cup {[NoOp EXCEPT !.name = "search", !.key = k] : k \in Keys \ {<<>>}}
    \cup {[NoOp EXCEPT !.name = "regex_search", !.key = k] : k \in Patterns}

LineOps == {"del_line", "ins_line", "rep_line"}

\* a line some other program wrote into the log
Foreign(b) ==
    [ent  |-> [op |-> "foreign", path |-> <<>>, lineno |-> 0, text |-> b,
               sub |-> <<>>, after |-> 0],
     part |-> 0]

\* the entry an earlier append_line of the text x to the file f has written
Appended(f, x) ==
    LogLines(LogEntry([NoOp EXCEPT !.name = "append_line", !.path = f, !.line = x], 1))

\* what an initial log of SpecLog holds besides del_line entries: nothing; an
\* entry with the byte 0xFF in its text; an entry whose text has two lines; an
\* entry of the other file with File 'f' in its text, alone and after a
\* newline; a foreign line with a NUL byte; a foreign line of LOGLEN - 1 bytes
SpecialLines ==
    {<<>>,
     Appended(Path, <<FF>>),
     Appended(Path, <<LB, NL, LB>>),
     Appended(OtherPath, DisplayKey(Path)),
     Appended(OtherPath, <<LB, NL>> \o DisplayKey(Path)),
     <<Foreign(<<LX, NUL>>)>>,
     <<Foreign([i \in 1..(LOGLEN - 2) |-> LX])>>}

PriorRange(a, b) == [i \in 1..(b - a + 1) |-> [ent |-> PriorEntry(a + i - 1), part |-> 0]]

LogSizes == (0..1) \cup ((CLOG_BUFFER - LogSpread)..(CLOG_BUFFER + 1))

InitCommon ==
    /\ temp = <<>>
    /\ exists = {"target"} \cup (IF log = <<>> THEN {} ELSE {"log"})
    /\ open = {}
    /\ pc = "idle"
    /\ op = NoOp
    /\ lines = 0
    /\ status = "none"
    /\ printed = 0
    /\ F0 = target
    /\ log0 = log
    /\ prev = [op |-> NoOp, F0 |-> <<>>, status |-> "none"]
    /\ shown = <<>>
    /\ kept = <<>>
    /\ hist = log
    /\ fpos = 0
    /\ since = -1

\* one invocation on any file, with no log yet or a log one entry below the cap
Init ==
    /\ target \in SeqsUpTo(FileBytes, MaxLen)
    /\ log \in {<<>>, PriorLog(CLOG_BUFFER - 1)}
    /\ budget = 1
    /\ script = <<>>
    /\ InitCommon

\* one invocation on a text file (no NUL byte, no byte 0xFF), the log one entry
\* below the cap
InitText ==
    /\ target \in SeqsUpTo({LX, NL, CR}, MaxLen + 2)
    /\ log = PriorLog(CLOG_BUFFER - 1)
    /\ budget = 1
    /\ script = <<>>
    /\ InitCommon

\* sequences of invocations, the log one entry below the cap
InitSeq ==
    /\ target \in SeqsUpTo({LX, NL}, MaxLen - 2)
    /\ log = PriorLog(CLOG_BUFFER - 1)
    /\ budget = 2
    /\ script = <<>>
    /\ InitCommon

\* one invocation on a short text file, for the questions of termination
InitLive ==
    /\ target \in SeqsUpTo({LX, NL}, MaxLen - 1)
    /\ log = PriorLog(CLOG_BUFFER - 1)
    /\ budget = 1
    /\ script = <<>>
    /\ InitCommon

\* the command lines that are repeated: one of every operation, and a replace
\* whose key holds a newline byte
RunCommands ==
    {o \in Invocations :
        /\ o.lineno \in {0, 1}
        /\ o.name \in {"del_line", "rep_line", "show_line"} => o.lineno = 1
        /\ o.name = "ins_line" => o.lineno = 0
        /\ o.name \in {"ins_line", "rep_line", "append_line"} => o.line = <<LB>>
        /\ o.name = "replace" => o.key \in {<<LX>>, <<LX, NL>>} /\ o.sub = <<LDash>>
        /\ o.name = "display_log" => o.path = Path
        /\ o.name \in {"search", "regex_search"} => o.key = <<LX>>}

\* one command line given MaxRuns times, the log one entry below the cap
InitRun ==
    /\ target = <<LX>>
    /\ log = PriorLog(CLOG_BUFFER - 1)
    /\ budget = MaxRuns
    /\ script \in {<<o>> : o \in RunCommands}
    /\ InitCommon

\* one invocation with a log of any size around CLOG_BUFFER: del_line entries
\* and, between them, one of SpecialLines
InitLog ==
    /\ target \in {<<LX>>, <<LX, NL, LX>>}
    /\ log \in {PriorLog(j) \o sp \o PriorRange(j + 1, j + k) :
                    j \in LogSizes, sp \in SpecialLines, k \in 0..MaxTail}
    /\ budget = 1
    /\ script = <<>>
    /\ InitCommon

-----------------------------------------------------------------------------
(* The invocation, step by step *)

\* exit(1), die() or a crash: the process is gone; `open` keeps the handles it
\* had not closed
Quit(st) == pc' = "exit" /\ status' = st

\* a main that calls replace without the minimum-length test of the key: the
\* variant C23 must tell from the source's
main_unchecked(o) ==
    /\ pc = "idle"
    /\ budget > 0
    /\ script \in {<<>>, <<o>>}
    /\ budget' = budget - 1
    /\ op' = o
    /\ prev' = [op |-> op, F0 |-> F0, status |-> status]
    /\ F0' = target
    /\ log0' = log
    /\ lines' = 0
    /\ printed' = 0
    /\ shown' = <<>>
    /\ IF o.name = "display_log" THEN pc' = "display" /\ status' = "run"
       ELSE IF "target" \notin exists THEN Quit("noaccess")
       ELSE pc' = "fopen" /\ status' = "run"
    /\ UNCHANGED <<target, temp, log, exists, open, kept, hist, fpos, since, script>>

\* main: -chlog goes to display_log; for the others the target must exist and
\* -rp needs a key of length >= 1; then the call
main(o) ==
    /\ pc = "idle"
    /\ budget > 0
    /\ script \in {<<>>, <<o>>}
    /\ budget' = budget - 1
    /\ op' = o
    /\ prev' = [op |-> op, F0 |-> F0, status |-> status]
    /\ F0' = target
    /\ log0' = log
    /\ lines' = 0
    /\ printed' = 0
    /\ shown' = <<>>
    /\ IF o.name = "display_log" THEN pc' = "display" /\ status' = "run"
       ELSE IF "target" \notin exists THEN Quit("noaccess")
       ELSE IF o.name = "replace" /\ Len(o.key) < 1 THEN Quit("tooshort")
       ELSE pc' = "fopen" /\ status' = "run"
    /\ UNCHANGED <<target, temp, log, exists, open, kept, hist, fpos, since, script>>

\* fopen(fpath, "r") (append_line: "a"); die("fopen") when it fails
fopen_source(ok) ==
    /\ pc = "fopen"
    /\ IF ok
       THEN /\ open' = {"fptr"}
            /\ pc' = CASE op.name = "append_line" -> "append"
                       [] op.name \in {"replace", "search", "regex_search"} -> "verify"
                       [] OTHER -> "count"
            /\ UNCHANGED status
       ELSE Quit("die_fopen") /\ UNCHANGED open
    /\ UNCHANGED <<target, temp, log, exists, op, lines, printed, F0, log0, prev, budget, shown, kept, hist, fpos, since, script>>

\* del_line, ins_line, rep_line: `if (lineno > (lines = count_lines(&fptr)))`;
\* show_line: `if (lineno > count_lines(&fptr))`
check_range ==
    /\ pc = "count"
    /\ lines' = count_lines(target)
    /\ IF op.lineno > lines'
       THEN Quit("range") /\ open' = {}
       ELSE pc' = "fseek" /\ UNCHANGED <<status, open>>
    /\ UNCHANGED <<target, temp, log, exists, op, printed, F0, log0, prev, budget, shown, kept, hist, fpos, since, script>>

\* replace, search, regex_search: `if ((lines = verify_lines(&fptr, MAX - 2))
\* == -1)`; in replace total = lines
check_verify ==
    /\ pc = "verify"
    /\ lines' = verify_lines(target, MAX - 2)
    /\ IF lines' = -1
       THEN Quit("unsafe") /\ open' = {}
       ELSE pc' = "fseek" /\ UNCHANGED <<status, open>>
    /\ UNCHANGED <<target, temp, log, exists, op, printed, F0, log0, prev, budget, shown, kept, hist, fpos, since, script>>

\* fseek(fptr, 0, SEEK_SET); on failure fclose(fptr) and die("fseek")
fseek_start(ok) ==
    /\ pc = "fseek"
    /\ IF ok
       THEN /\ pc' = CASE op.name = "show_line" -> "skip"
                       [] op.name = "search" -> "scan"
                       [] op.name = "regex_search" -> "regcomp"
                       [] OTHER -> "fopentemp"
            /\ lines' = IF op.name = "show_line" THEN 1 ELSE lines
            /\ fpos' = IF op.name = "show_line" THEN 1 ELSE fpos
            /\ UNCHANGED <<status, open>>
       ELSE Quit("die_fseek") /\ open' = {} /\ UNCHANGED <<lines, fpos>>
    /\ UNCHANGED <<target, temp, log, exists, op, printed, F0, log0, prev, budget, shown, kept, hist, since, script>>

\* fopen(TEMPF, "w"); on failure fclose(fptr) and die("fopen temp")
fopen_temp(ok) ==
    /\ pc = "fopentemp"
    /\ IF ok
       THEN /\ temp' = <<>>
            /\ exists' = exists \cup {"temp"}
            /\ open' = open \cup {"temp"}
            /\ pc' = "copy"
            /\ UNCHANGED status
       ELSE Quit("die_fopentemp") /\ open' = {} /\ UNCHANGED <<temp, exists>>
    /\ UNCHANGED <<target, log, op, lines, printed, F0, log0, prev, budget, shown, kept, hist, fpos, since, script>>

\* a del_line copy loop that leaves the scratch handle open: the variant C13
\* must tell from the source's
del_line_loop_unclosed ==
    /\ pc = "copy"
    /\ op.name = "del_line"
    /\ temp' = del_line_copy(target, op.lineno)
    /\ open' = {"temp"}
    /\ pc' = "remove"
    /\ UNCHANGED <<target, log, exists, op, lines, status, printed, F0, log0, prev, budget, shown, kept, hist, fpos, since, script>>

\* del_line's copy loop, then fclose(fptr), fclose(temp)
del_line_loop ==
    /\ pc = "copy"
    /\ op.name = "del_line"
    /\ temp' = del_line_copy(target, op.lineno)
    /\ open' = {}
    /\ pc' = "remove"
    /\ UNCHANGED <<target, log, exists, op, lines, status, printed, F0, log0, prev, budget, shown, kept, hist, fpos, since, script>>

\* ins_line's copy loop, entered with `char c` indeterminate, then both fclose
ins_line_loop(c0) ==
    /\ pc = "copy"
    /\ op.name = "ins_line"
    /\ temp' = ins_line_copy(target, op.line, op.lineno, c0)
    /\ open' = {}
    /\ pc' = "remove"
    /\ UNCHANGED <<target, log, exists, op, lines, status, printed, F0, log0, prev, budget, shown, kept, hist, fpos, since, script>>

\* rep_line's copy loop, then both fclose
rep_line_loop ==
    /\ pc = "copy"
    /\ op.name = "rep_line"
    /\ temp' = rep_line_copy(target, op.line, op.lineno)
    /\ open' = {}
    /\ pc' = "remove"
    /\ UNCHANGED <<target, log, exists, op, lines, status, printed, F0, log0, prev, budget, shown, kept, hist, fpos, since, script>>

\* replace's scan loop.  At the end of the file: the printf of the total and
\* both fclose.  string_sub returned NULL: both fclose and exit(1), the scratch
\* file stays.  Undefined behaviour in string_sub: modelled as the crash of the
\* process, with what it had written flushed to the scratch file or not.
replace_loop(mallocOk, flushed) ==
    /\ pc = "copy"
    /\ op.name = "replace"
    /\ LET r == replace_scan(target, op.key, op.sub, mallocOk)
       IN  CASE r.end = "eof" ->
                  /\ temp' = r.out
                  /\ printed' = r.count
                  /\ open' = {}
                  /\ pc' = "remove"
                  /\ UNCHANGED status
             [] r.end = "null" ->
                  /\ temp' = r.out
                  /\ open' = {}
                  /\ Quit("suberror")
                  /\ UNCHANGED printed
             [] r.end = "ub" ->
                  /\ temp' = IF flushed THEN r.out ELSE <<>>
                  /\ Quit("crash")
                  /\ UNCHANGED <<open, printed>>
    /\ UNCHANGED <<target, log, exists, op, lines, F0, log0, prev, budget, shown, kept, hist, fpos, since, script>>

\* a remove step that deletes the scratch file when remove() fails: the variant
\* C14 must tell from the source's
remove_original_cleanup(ok) ==
    /\ pc = "remove"
    /\ IF ok
       THEN /\ exists' = exists \ {"target"}
            /\ target' = <<>>
            /\ temp' = temp
            /\ pc' = "rename"
            /\ UNCHANGED status
       ELSE /\ Quit("die_remove")
            /\ exists' = exists \ {"temp"}
            /\ temp' = <<>>
            /\ UNCHANGED target
    /\ UNCHANGED <<log, open, op, lines, printed, F0, log0, prev, budget, shown, kept, hist, fpos, since, script>>

\* remove(fpath); die("remove") when it fails
remove_original(ok) ==
    /\ pc = "remove"
    /\ IF ok
       THEN /\ exists' = exists \ {"target"}
            /\ target' = <<>>
            /\ pc' = "rename"
            /\ UNCHANGED status
       ELSE Quit("die_remove") /\ UNCHANGED <<exists, target>>
    /\ UNCHANGED <<temp, log, open, op, lines, printed, F0, log0, prev, budget, shown, kept, hist, fpos, since, script>>

\* rename(TEMPF, fpath); die("rename") when it fails
rename_temp(ok) ==
    /\ pc = "rename"
    /\ IF ok
       THEN /\ target' = temp
            /\ temp' = <<>>
            /\ exists' = (exists \ {"temp"}) \cup {"target"}
            /\ pc' = "log"
            /\ UNCHANGED status
       ELSE Quit("die_rename") /\ UNCHANGED <<exists, target, temp>>
    /\ UNCHANGED <<log, open, op, lines, printed, F0, log0, prev, budget, shown, kept, hist, fpos, since, script>>

\* append_line after its fopen: is_empty (stat; die("stat") leaves fptr open),
\* the fprintf, fclose, fopen "r" (die("fopen")), count_lines, fclose
append_write(fail) ==
    /\ pc = "append"
    /\ CASE fail = "stat" ->
              Quit("die_stat") /\ UNCHANGED <<target, lines, open>>
         [] fail = "fopen" ->
              /\ target' = append_line_write(target, op.line)
              /\ open' = {}
              /\ Quit("die_fopen")
              /\ UNCHANGED lines
         [] OTHER ->
              /\ target' = append_line_write(target, op.line)
              /\ lines' = count_lines(target')
              /\ open' = {}
              /\ pc' = "log"
              /\ UNCHANGED status
    /\ UNCHANGED <<temp, log, exists, op, printed, F0, log0, prev, budget, shown, kept, hist, fpos, since, script>>

\* change_log: fopen(LOGF, "a+"), the fprintf of the entry, fclose
change_log(ok) ==
    /\ pc = "log"
    /\ IF ok
       THEN /\ log' = log \o LogLines(LogEntry(op, lines))
            /\ hist' = hist \o LogLines(LogEntry(op, lines))
            /\ exists' = exists \cup {"log"}
            /\ pc' = "truncate"
            /\ UNCHANGED status
       ELSE Quit("die_fopenlog") /\ UNCHANGED <<log, hist, exists>>
    /\ UNCHANGED <<target, temp, open, op, lines, printed, F0, log0, prev, budget, shown, kept, fpos, since, script>>

\* a truncate_log that empties the log it finds unsafe: the variant C19 must
\* tell from the source's
truncate_log_discarding(ok) ==
    /\ pc = "truncate"
    /\ IF ~ok THEN Quit("die_tfopen") /\ UNCHANGED <<open, log>>
       ELSE IF LogVerify(log) = -1 THEN Quit("tampered") /\ log' = <<>> /\ UNCHANGED open
       ELSE IF LogVerify(log) > CLOG_BUFFER
       THEN pc' = "tfseek" /\ open' = {"fptr"} /\ UNCHANGED <<status, log>>
       ELSE Quit("ok") /\ UNCHANGED <<open, log>>
    /\ since' = IF since >= 0 /\ ~(ok /\ LogVerify(log) > CLOG_BUFFER)
                THEN since + 1 ELSE since
    /\ UNCHANGED <<target, temp, exists, op, lines, printed, F0, log0, prev, budget, shown, kept, hist, fpos, script>>

\* truncate_log: fopen(LOGF, "r") and verify_lines.  -1: the warning, fclose
\* and exit(1).  Not above CLOG_BUFFER: fclose, and the function that logged
\* returns.  Above: on to the rewrite through the scratch file.
truncate_log(ok) ==
    /\ pc = "truncate"
    /\ IF ~ok THEN Quit("die_tfopen") /\ UNCHANGED open
       ELSE IF LogVerify(log) = -1 THEN Quit("tampered") /\ UNCHANGED open
       ELSE IF LogVerify(log) > CLOG_BUFFER
       THEN pc' = "tfseek" /\ open' = {"fptr"} /\ UNCHANGED status
       ELSE Quit("ok") /\ UNCHANGED open
    /\ since' = IF since >= 0 /\ ~(ok /\ LogVerify(log) > CLOG_BUFFER)
                THEN since + 1 ELSE since
    /\ UNCHANGED <<target, temp, log, exists, op, lines, printed, F0, log0, prev, budget, shown, kept, hist, fpos, script>>

\* truncate_log: fseek(fptr, 0, SEEK_SET); on failure fclose and die("fseek")
trunc_fseek(ok) ==
    /\ pc = "tfseek"
    /\ IF ok THEN pc' = "tfopentemp" /\ UNCHANGED <<status, open>>
       ELSE Quit("die_tfseek") /\ open' = {}
    /\ UNCHANGED <<target, temp, log, exists, op, lines, printed, F0, log0, prev, budget, shown, kept, hist, fpos, since, script>>

\* truncate_log: fopen(TEMPF, "w"); on failure fclose and die("fopen temp")
trunc_fopen_temp(ok) ==
    /\ pc = "tfopentemp"
    /\ IF ok
       THEN /\ temp' = <<>>
            /\ kept' = <<>>
            /\ exists' = exists \cup {"temp"}
            /\ open' = open \cup {"temp"}
            /\ pc' = "tcopy"
            /\ UNCHANGED status
       ELSE Quit("die_tfopentemp") /\ open' = {} /\ UNCHANGED <<temp, kept, exists>>
    /\ UNCHANGED <<target, log, op, lines, printed, F0, log0, prev, budget, shown, hist, fpos, since, script>>

\* truncate_log's copy loop, then fclose(temp), fclose(fptr)
trunc_copy ==
    /\ pc = "tcopy"
    /\ \E k \in {TruncLoop(log, 1, LogVerify(log), <<>>)} :
           kept' = k /\ temp' = LogBytes(k)
    /\ open' = {}
    /\ pc' = "tremove"
    /\ UNCHANGED <<target, log, exists, op, lines, status, printed, F0, log0, prev, budget, shown, hist, fpos, since, script>>

\* truncate_log: remove(LOGF); die("remove") when it fails
trunc_remove(ok) ==
    /\ pc = "tremove"
    /\ IF ok
       THEN /\ exists' = exists \ {"log"}
            /\ log' = <<>>
            /\ pc' = "trename"
            /\ UNCHANGED status
       ELSE Quit("die_tremove") /\ UNCHANGED <<exists, log>>
    /\ UNCHANGED <<target, temp, open, op, lines, printed, F0, log0, prev, budget, shown, kept, hist, fpos, since, script>>

\* truncate_log: rename(TEMPF, LOGF); die("rename") when it fails; then the
\* function that logged returns
trunc_rename(ok) ==
    /\ pc = "trename"
    /\ IF ok
       THEN /\ log' = kept
            /\ temp' = <<>>
            /\ kept' = <<>>
            /\ exists' = (exists \ {"temp"}) \cup {"log"}
            /\ since' = 0
            /\ Quit("ok")
       ELSE Quit("die_trename") /\ UNCHANGED <<exists, log, temp, kept, since>>
    /\ UNCHANGED <<target, open, op, lines, printed, F0, log0, prev, budget, shown, hist, fpos, script>>

\* display_log: access(LOGF), fopen(LOGF, "r") (die("fopen log")), verify_lines
\* (-1: the warning, fclose, exit(1)), fseek (fclose and die("fseek")), the
\* loop that prints, fclose
display_log(fail) ==
    /\ pc = "display"
    /\ IF "log" \notin exists THEN Quit("nolog") /\ UNCHANGED shown
       ELSE IF fail = "fopen" THEN Quit("die_fopenlog") /\ UNCHANGED shown
       ELSE IF LogVerify(log) = -1 THEN Quit("tampered") /\ UNCHANGED shown
       ELSE IF fail = "fseek" THEN Quit("die_fseek") /\ UNCHANGED shown
       ELSE shown' = DisplayLoop(log, op.path) /\ Quit("ok")
    /\ UNCHANGED <<target, temp, log, exists, open, op, lines, printed, F0, log0, prev, budget, kept, hist, fpos, since, script>>

\* show_line's `while (lines != lineno)`: one iteration.  The byte read is
\* not tested against EOF; at the end of the file fgetc returns EOF again and
\* again and the offset stays
show_line_skip ==
    /\ pc = "skip"
    /\ IF lines = op.lineno
       THEN pc' = "print" /\ UNCHANGED <<lines, fpos>>
       ELSE /\ lines' = IF ToChar(Getc(target, fpos)) = NL
                        THEN (lines + 1) % SizeMod ELSE lines
            /\ fpos' = IF fpos > Len(target) THEN fpos ELSE fpos + 1
            /\ UNCHANGED pc
    /\ UNCHANGED <<target, temp, log, exists, open, op, status, printed, F0, log0, prev, budget, shown, kept, hist, since, script>>

\* show_line's do-while that prints the line, the printf("\n"), fclose
show_line_print ==
    /\ pc = "print"
    /\ shown' = ShowLoop(target, fpos, <<>>)
    /\ open' = {}
    /\ Quit("ok")
    /\ UNCHANGED <<target, temp, log, exists, op, lines, printed, F0, log0, prev, budget, kept, hist, fpos, since, script>>

\* search after its fseek: the loop, free, fclose, the printf of the total
search_loop ==
    /\ pc = "scan"
    /\ shown' = search_scan(target, op.key).out
    /\ printed' = search_scan(target, op.key).count
    /\ open' = {}
    /\ Quit("ok")
    /\ UNCHANGED <<target, temp, log, exists, op, lines, F0, log0, prev, budget, kept, hist, fpos, since, script>>

\* regex_search after its fseek: regcomp; on an error regerror, the message,
\* fclose and exit(1); else the loop, regfree, fclose, the printf of the count
regex_search_loop ==
    /\ pc = "regcomp"
    /\ IF regcomp(op.key) # 0
       THEN Quit("badpattern") /\ UNCHANGED <<shown, printed>>
       ELSE /\ shown' = RegexLoop(target, 1, op.key, 0, <<>>)
            /\ printed' = Len(shown')
            /\ Quit("ok")
    /\ open' = {}
    /\ UNCHANGED <<target, temp, log, exists, op, lines, F0, log0, prev, budget, kept, hist, fpos, since, script>>

\* the process has ended; its handles are gone with it
exit_process ==
    /\ pc = "exit"
    /\ pc' = "idle"
    /\ open' = {}
    /\ UNCHANGED <<target, temp, log, exists, op, lines, status, printed, F0, log0, prev, budget, shown, kept, hist, fpos, since, script>>

Next ==
    \/ \E o \in Invocations : main(o)
    \/ \E ok \in BOOLEAN : fopen_source(ok)
    \/ check_range
    \/ check_verify
    \/ \E ok \in BOOLEAN : fseek_start(ok)
    \/ \E ok \in BOOLEAN : fopen_temp(ok)
    \/ del_line_loop
    \/ \E c0 \in Indeterminate : ins_line_loop(c0)
    \/ rep_line_loop
    \/ \E mallocOk \in BOOLEAN, flushed \in BOOLEAN : replace_loop(mallocOk, flushed)
    \/ \E ok \in BOOLEAN : remove_original(ok)
    \/ \E ok \in BOOLEAN : rename_temp(ok)
    \/ \E fail \in {"none", "stat", "fopen"} : append_write(fail)
    \/ \E ok \in BOOLEAN : change_log(ok)
    \/ \E ok \in BOOLEAN : truncate_log(ok)
    \/ \E ok \in BOOLEAN : trunc_fseek(ok)
    \/ \E ok \in BOOLEAN : trunc_fopen_temp(ok)
    \/ trunc_copy
    \/ \E ok \in BOOLEAN : trunc_remove(ok)
    \/ \E ok \in BOOLEAN : trunc_rename(ok)
    \/ \E fail \in {"none", "fopen", "fseek"} : display_log(fail)
    \/ show_line_skip
    \/ show_line_print
    \/ search_loop
    \/ regex_search_loop
    \/ exit_process

Spec == Init /\ [][Next]_vars

SpecText == InitText /\ [][Next]_vars

SpecSeq == InitSeq /\ [][Next]_vars

SpecLog == InitLog /\ [][Next]_vars

SpecRun == InitRun /\ [][Next]_vars

\* a process that can take a step takes it: the invocation is a sequential
\* program and nothing suspends it
SpecLive == InitLive /\ [][Next]_vars /\ WF_vars(Next)

-----------------------------------------------------------------------------
(* What the claims speak of *)

\* the lines of a file: the byte spans between line terminators; a file of
\* zero bytes has no line
RECURSIVE SplitFrom(_, _, _, _)
SplitFrom(f, i, cur, acc) ==
    IF i > Len(f) THEN Append(acc, cur)
    ELSE IF f[i] = NL THEN SplitFrom(f, i + 1, <<>>, Append(acc, cur))
    ELSE SplitFrom(f, i + 1, Append(cur, f[i]), acc)

SplitLines(f) == IF f = <<>> THEN <<>> ELSE SplitFrom(f, 1, <<>>, <<>>)

RECURSIVE JoinLines(_)
JoinLines(ls) ==
    IF ls = <<>> THEN <<>>
    ELSE IF Len(ls) = 1 THEN ls[1]
    ELSE ls[1] \o <<NL>> \o JoinLines(Tail(ls))

RemoveAt(ls, n) == SubSeq(ls, 1, n - 1) \o SubSeq(ls, n + 1, Len(ls))
InsertAt(ls, n, x) == SubSeq(ls, 1, n - 1) \o <<x>> \o SubSeq(ls, n, Len(ls))
ReplaceAt(ls, n, x) == SubSeq(ls, 1, n - 1) \o <<x>> \o SubSeq(ls, n + 1, Len(ls))

\* an invocation of function nm has run to its end and returned
Done(nm) == pc = "exit" /\ status = "ok" /\ op.name = nm

InRange == op.lineno >= 1 /\ op.lineno <= count_lines(F0)

\* C1: del_line(F, n) with 1 <= n <= count_lines(F) leaves F's line sequence
\* with exactly line n removed: every other line keeps its content, its place
\* and its terminator (no neighbouring lines are merged), and, where bytes are
\* left, the line count is count_lines(F) - 1
C1_DelLineRemovesExactlyLineN ==
    (Done("del_line") /\ InRange) =>
        /\ target = JoinLines(RemoveAt(SplitLines(F0), op.lineno))
        /\ target # <<>> => count_lines(target) = count_lines(F0) - 1

\* C2: ins_line(F, X, n) followed by del_line(F, n), n in range of the original
\* F, restores the original line sequence
C2_InsertThenDeleteRestores ==
    (/\ Done("del_line")
     /\ prev.op.name = "ins_line"
     /\ prev.status = "ok"
     /\ prev.op.lineno = op.lineno
     /\ op.lineno >= 1
     /\ op.lineno <= count_lines(prev.F0)) =>
        SplitLines(target) = SplitLines(prev.F0)

\* C3: ins_line(F, X, n) with 1 <= n <= count_lines(F), n = 1 included, gives
\* lines 1..n-1, then X and a terminator, then the original lines n.. to the
\* end; the line count grows by one
C3_InsLineInsertsAndKeepsAll ==
    (Done("ins_line") /\ InRange) =>
        /\ target = JoinLines(InsertAt(SplitLines(F0), op.lineno, op.line))
        /\ count_lines(target) = count_lines(F0) + 1

\* C4: rep_line(F, X, n) with n in range is byte exact: the original lines with
\* X in place of line n and no other byte, none at the end of the file either
C4_RepLineByteExact ==
    (Done("rep_line") /\ InRange) =>
        target = JoinLines(ReplaceAt(SplitLines(F0), op.lineno, op.line))

\* C5: rep_line(F, X, n) with n in range and X without a terminator leaves
\* count_lines unchanged
C5_RepLineKeepsCount ==
    (Done("rep_line") /\ InRange) => count_lines(target) = count_lines(F0)

\* C6: append_line(F, X) with non-empty X adds one to count_lines(F), for files
\* of any size; the count is 1 when F had zero bytes
C6_AppendAddsOneLine ==
    (Done("append_line") /\ Len(op.line) > 0) =>
        count_lines(target) = IF Len(F0) = 0 THEN 1 ELSE count_lines(F0) + 1

\* every non-overlapping occurrence of key in s, found left to right, replaced
RECURSIVE ReplaceAll(_, _, _)
ReplaceAll(s, key, sub) ==
    IF Len(key) = 0 \/ Len(s) < Len(key) THEN s
    ELSE IF SubSeq(s, 1, Len(key)) = key
    THEN sub \o ReplaceAll(SubSeq(s, Len(key) + 1, Len(s)), key, sub)
    ELSE <<s[1]>> \o ReplaceAll(Tail(s), key, sub)

\* the number of those occurrences
RECURSIVE Occurrences(_, _)
Occurrences(s, key) ==
    IF Len(key) = 0 \/ Len(s) < Len(key) THEN 0
    ELSE IF SubSeq(s, 1, Len(key)) = key
    THEN 1 + Occurrences(SubSeq(s, Len(key) + 1, Len(s)), key)
    ELSE Occurrences(Tail(s), key)

RECURSIVE SumOcc(_, _)
SumOcc(ls, key) ==
    IF ls = <<>> THEN 0 ELSE Occurrences(ls[1], key) + SumOcc(Tail(ls), key)

Substituted(ls, key, sub) == [i \in 1..Len(ls) |-> ReplaceAll(ls[i], key, sub)]

NoTerminator(s) == \A i \in 1..Len(s) : s[i] # NL /\ s[i] # CR

\* C7: replace on a verified file with a non-empty key rewrites each line with
\* every non-overlapping occurrence of key replaced by sub and every other byte
\* of the line kept (the last line may gain a terminator), and the total it
\* prints is the number of occurrences replaced
C7_ReplaceSubstitutesEveryOccurrence ==
    Done("replace") =>
        LET want == JoinLines(Substituted(SplitLines(F0), op.key, op.sub))
        IN  /\ target \in {want, want \o <<NL>>}
            /\ printed = SumOcc(SplitLines(F0), op.key)

\* C8: replace with a key that occurs in no line of a verified file leaves the
\* file byte-identical
C8_ReplaceWithoutMatchIsIdentity ==
    (Done("replace") /\ SumOcc(SplitLines(F0), op.key) = 0) => target = F0

\* C9: replace with key and sub free of terminator bytes leaves count_lines
\* unchanged, and that count is the one written to the log
C9_ReplaceKeepsLineCount ==
    (Done("replace") /\ NoTerminator(op.key) /\ NoTerminator(op.sub)) =>
        /\ count_lines(target) = count_lines(F0)
        /\ log[Len(log)].ent.after = count_lines(F0)

\* C10: del_line, ins_line and rep_line called with lineno = 0 are rejected as
\* out of range: such an invocation never runs to its successful end and
\* appends no log entry
C10_LineZeroIsRejected ==
    (op.name \in LineOps /\ op.lineno = 0) => (status # "ok" /\ log = log0)

\* C11: ins_line accepts lineno = count_lines(F) + 1 and then adds the text as
\* a new last line (so line 1 of an empty file can be inserted); the range
\* check rejects only lineno > count_lines(F) + 1
C11_InsLineAcceptsCountPlusOne ==
    /\ (op.name = "ins_line" /\ status = "range") => op.lineno > count_lines(F0) + 1
    /\ (Done("ins_line") /\ op.lineno = count_lines(F0) + 1) =>
           SplitLines(target) = Append(SplitLines(F0), op.line)

\* the length of each line of f, its terminator included
LineLens(f) ==
    LET ls == SplitLines(f)
    IN  [i \in 1..Len(ls) |-> Len(ls[i]) + (IF i < Len(ls) THEN 1 ELSE 0)]

\* some line of f does not fit one fgets(line, MAX - 1, f), or f has a NUL byte
Unsafe(f, max_val) ==
    \/ \E i \in 1..Len(f) : f[i] = NUL
    \/ \E i \in 1..Len(LineLens(f)) : LineLens(f)[i] > max_val

\* the invocation has an input its validation is to refuse
Invalid ==
    \/ op.name \in LineOps /\ op.lineno > count_lines(F0)
    \/ op.name = "replace" /\ Unsafe(F0, MAX - 2)

\* C12: an invocation whose input fails validation (lineno > count_lines(F) in
\* del_line, ins_line, rep_line; an over-long line or a NUL byte in replace)
\* never changes the target file, never creates the scratch file and appends
\* nothing to the log
C12_ValidationBeforeDestruction ==
    Invalid => (target = F0 /\ "temp" \notin exists /\ log = log0)

\* the functions that rewrite the target file through the scratch file
Rewrites == LineOps \cup {"replace"}

\* what the scratch file holds once the copy loop of the running rewrite has
\* run to its end
CompleteScratch ==
    CASE op.name = "del_line" -> {del_line_copy(F0, op.lineno)}
      [] op.name = "ins_line" ->
             {ins_line_copy(F0, op.line, op.lineno, c) : c \in Indeterminate}
      [] op.name = "rep_line" -> {rep_line_copy(F0, op.line, op.lineno)}
      [] op.name = "replace" -> {replace_scan(F0, op.key, op.sub, TRUE).out}
      [] OTHER -> {}

\* the lines change_log has appended for the running invocation
NewLines == LogLines(LogEntry(op, lines))

\* the steps of a rewrite of the target file before its remove(), and those of
\* truncate_log before its remove()
BeforeRemove == {"fopen", "count", "verify", "fseek", "fopentemp", "copy"}
BeforeLogRemove == {"truncate", "tfseek", "tfopentemp", "tcopy"}

\* C13: in del_line, ins_line, rep_line, replace and truncate_log the original
\* file (the target; the log) is never written in place; it is removed only in
\* the remove step, when the scratch file holds the complete rewritten content
\* and both handles are closed; and a step that ends the operation before the
\* remove step leaves the original file in place, byte-identical
C13_RemoveOnlyAfterScratchComplete ==
    [][/\ ("target" \in exists /\ "target" \notin exists') =>
              (/\ pc = "remove"
               /\ open = {}
               /\ "temp" \in exists
               /\ temp \in CompleteScratch)
       /\ ("log" \in exists /\ "log" \notin exists') =>
              (/\ pc = "tremove"
               /\ open = {}
               /\ "temp" \in exists
               /\ temp = LogBytes(TruncLoop(log, 1, LogVerify(log), <<>>)))
       /\ (op.name \in Rewrites /\ target' # target) => pc \in {"remove", "rename"}
       /\ (log' # log) => pc \in {"log", "tremove", "trename"}
       /\ (op.name \in Rewrites /\ pc \in BeforeRemove /\ pc' = "exit") =>
              ("target" \in exists' /\ target' = F0)
       /\ (pc \in BeforeLogRemove /\ pc' = "exit") =>
              ("log" \in exists' /\ log' = log)
      ]_vars

\* a replace has ended on a failed substitution, the original file in place
C13_Witness ==
    pc = "exit" /\ status = "suberror" /\ "temp" \in exists /\ target = F0

\* C14: when remove() of the original fails the operation ends with a fatal
\* error, the scratch file stays on disk with the complete rewritten content,
\* the original is still in place (no rename was attempted) and no log entry
\* is appended; when rename() fails after the remove the scratch file stays
\* under its temporary name and no log entry is appended.  Likewise for the
\* rewrite of the log in truncate_log.
C14_FailedRemoveOrRenameKeepsScratch ==
    /\ status = "die_remove" =>
           (/\ "temp" \in exists /\ temp \in CompleteScratch
            /\ "target" \in exists /\ target = F0
            /\ log = log0)
    /\ status = "die_rename" =>
           (/\ "temp" \in exists /\ temp \in CompleteScratch
            /\ "target" \notin exists
            /\ log = log0)
    /\ status = "die_tremove" =>
           (/\ "temp" \in exists /\ temp = LogBytes(kept)
            /\ kept = TruncLoop(log, 1, LogVerify(log), <<>>)
            /\ "log" \in exists /\ log = log0 \o NewLines)
    /\ status = "die_trename" =>
           (/\ "temp" \in exists /\ temp = LogBytes(kept)
            /\ kept = TruncLoop(log0 \o NewLines, 1, LogVerify(log0 \o NewLines), <<>>)
            /\ "log" \notin exists)

\* the rename of a rewrite has failed: the original is gone, the scratch file
\* is there
C14_Witness ==
    status = "die_rename" /\ "temp" \in exists /\ "target" \notin exists

\* a log made only of entries the tool itself wrote
ToolWritten(lg) == \A i \in 1..Len(lg) : lg[i].ent.op # "foreign"

\* the number of entries in a log: the lines on which an entry starts
Entries(lg) == Cardinality({i \in 1..Len(lg) : lg[i].part = 0})

\* change_log has returned: a logging operation has run to its end
Logged == pc = "exit" /\ status = "ok" /\ op.name \in Rewrites \cup {"append_line"}

\* C15: after change_log has returned, from any starting log made only of
\* tool-written entries, the log holds at most CLOG_BUFFER entries
C15_LogCapAfterChangeLog ==
    (Logged /\ ToolWritten(log0)) => Entries(log) <= CLOG_BUFFER

\* s is t with some elements left out, the others in their order
RECURSIVE IsSubseq(_, _)
IsSubseq(s, t) ==
    IF s = <<>> THEN TRUE
    ELSE IF t = <<>> THEN FALSE
    ELSE IF Head(s) = Head(t) THEN IsSubseq(Tail(s), Tail(t))
    ELSE IsSubseq(s, Tail(t))

\* the append of the running invocation has triggered the truncation, which
\* has run to its end
Truncated == Logged /\ log # log0 \o NewLines

\* C16: whenever an append triggers truncation, the log afterwards holds
\* exactly CLOG_BUFFER - 10 entries, and the survivors are in their original
\* oldest-first order
C16_TruncationLeavesCapMinusTen ==
    (Truncated /\ ToolWritten(log0)) =>
        /\ Entries(log) = CLOG_BUFFER - 10
        /\ IsSubseq(log, log0 \o NewLines)

\* the part of C16 that holds in the source: the survivors keep their order
C16_SurvivorsInOrder ==
    Truncated => IsSubseq(log, log0 \o NewLines)

\* s is the end of t
IsSuffix(s, t) == Len(s) <= Len(t) /\ s = SubSeq(t, Len(t) - Len(s) + 1, Len(t))

\* every entry of which the log holds a line is there with all its lines
WholeEntries(lg) ==
    \A i \in 1..Len(lg) :
        /\ \/ lg[i].part = 0
           \/ i > 1 /\ lg[i - 1].ent = lg[i].ent /\ lg[i - 1].part = lg[i].part - 1
        /\ \/ lg[i].part = Len(LogLines(lg[i].ent)) - 1
           \/ i < Len(lg) /\ lg[i + 1].ent = lg[i].ent /\ lg[i + 1].part = lg[i].part + 1

\* C17: after any sequence of change_log calls the log is a contiguous suffix
\* of the sequence of all entries ever appended (hist): no entry is reordered
\* or altered, only the oldest are dropped, and the entry of the most recent
\* call is at the end of the log
C17_LogIsSuffixOfHistory ==
    (Logged /\ ToolWritten(hist)) =>
        /\ IsSuffix(log, hist)
        /\ WholeEntries(log)
        /\ IsSuffix(NewLines, log)

\* the part of C17 that holds in the source: line by line, the log is the end
\* of all that was ever written to it, and it ends with the newest line
C17_LinesAreSuffix ==
    Logged => /\ IsSuffix(log, hist)
              /\ log # <<>> /\ log[Len(log)] = NewLines[Len(NewLines)]

\* the lines of the entries display_log is to print for the filter fpath:
\* those of the operations on fpath; all of them when there is no filter
EntriesOf(lg, fpath) ==
    LET mine(l) == fpath = <<>> \/ l.ent.path = fpath IN SelectSeq(lg, mine)

\* C18: display_log with a filter path P prints, in log order, exactly the
\* entries of the operations on P (the marker File 'P' before the first double
\* quote); an entry of another file that has File 'P' only inside a quoted
\* argument is not printed; with no filter every entry is printed
C18_DisplayLogFilter ==
    (Done("display_log") /\ ToolWritten(log) /\ WholeEntries(log)) =>
        shown = EntriesOf(log, op.path)

\* the part of C18 that holds in the source: with no filter every line is
\* printed, and with a filter the lines of one-line entries are chosen right
C18_OneLineEntries ==
    (Done("display_log") /\ ToolWritten(log)
        /\ \A i \in 1..Len(log) : Len(LogLines(log[i].ent)) = 1) =>
        shown = EntriesOf(log, op.path)

\* the log as it was when the audit-log operation that ran verify_lines on it
\* started: display_log reads the log the invocation found; truncate_log reads
\* it with the entry change_log has just written
LogAtCheck == IF op.name = "display_log" THEN log0 ELSE log0 \o NewLines

\* C19: when the log fails verify_lines (an over-long line or a NUL byte), the
\* operation that detects it (truncate_log called by change_log, or
\* display_log) ends with the tampering warning and leaves the log file as it
\* was when that operation started; no scratch file is created
C19_TamperedLogLeftUntouched ==
    status = "tampered" =>
        /\ "log" \in exists
        /\ log = LogAtCheck
        /\ LogVerify(log) = -1
        /\ "temp" \notin exists
        /\ shown = <<>>

\* truncate_log has found a NUL byte or an over-long line in the log after a
\* logged operation
C19_Witness ==
    /\ status = "tampered"
    /\ op.name \in Rewrites \cup {"append_line"}
    /\ \E i \in 1..Len(log) : log[i].ent.op = "foreign"

\* the buffers the successive fgets(line, MAX - 1, fptr) calls of a reading
\* loop return on the file f from position pos, up to the NULL at end of file
RECURSIVE FgetsCalls(_, _)
FgetsCalls(f, pos) ==
    LET g == fgets(f, pos, MAX - 1)
    IN  IF g.buf = <<>> THEN <<>> ELSE <<g.buf>> \o FgetsCalls(f, g.pos)

\* the lines of a file, each with its terminator (the last may have none)
WholeLines(f) ==
    LET ls == SplitLines(f)
        withNL == [i \in 1..Len(ls) |-> IF i < Len(ls) THEN ls[i] \o <<NL>> ELSE ls[i]]
        nonEmpty(x) == x # <<>>
    IN  SelectSeq(withNL, nonEmpty)

\* some line of f, terminated or not, is longer than max_val bytes
LongLine(f, max_val) == \E i \in 1..Len(LineLens(f)) : LineLens(f)[i] > max_val

\* C20: verify_lines(file, max) returns the failure value whenever any line of
\* the file, a final line without terminator included, is longer than max
\* bytes; so on a file that has passed it (here in replace, before the fseek)
\* the k-th fgets call returns exactly the k-th line, whole, and a counter
\* incremented per call is the true line number
C20_VerifiedFileReadsWholeLines ==
    (op.name = "replace" /\ pc = "fseek") =>
        /\ ~LongLine(target, MAX - 2)
        /\ FgetsCalls(target, 1) = WholeLines(target)

\* the part of C20 that holds in the source: a file whose lines all end with
\* a newline is refused when one of them is too long, and read line by line
\* when it has passed
C20_TerminatedLines ==
    (op.name = "replace" /\ pc = "fseek"
        /\ target # <<>> /\ target[Len(target)] = NL) =>
        /\ ~LongLine(target, MAX - 2)
        /\ FgetsCalls(target, 1) = WholeLines(target)

\* C23: a zero-length key given to replace is rejected before substitution
\* begins: the invocation ends in main's parse_string, replace is not called
\* (no scan loop, no string_sub), the scratch file is not created, the target
\* and the log are as they were
C23_EmptyKeyRejected ==
    (op.name = "replace" /\ Len(op.key) = 0) =>
        /\ pc \in {"exit", "idle"}
        /\ status = "tooshort"
        /\ open = {}
        /\ "temp" \notin exists /\ temp = <<>>
        /\ "target" \in exists /\ target = F0
        /\ log = log0

\* replace was invoked with an empty key and the invocation has ended
C23_Witness ==
    op.name = "replace" /\ op.key = <<>> /\ pc = "exit" /\ status = "tooshort"

\* C24: for every successful del_line, ins_line, rep_line, replace and
\* append_line the value written after "Lines After =" in the log entry is
\* count_lines of the target file as it is on disk after the operation
\* (and so never a wrapped-around difference)
C24_LinesAfterIsLineCount ==
    Logged => log[Len(log)].ent.after = count_lines(target)

\* C25: every file handle an operation opens is closed on every exit path: at
\* every point where the program returns or exits, die() after a failed stat,
\* fseek, fopen, remove or rename included, no handle is still open
C25_HandlesClosedOnEveryExit ==
    pc = "exit" => open = {}

\* the part of C25 that holds in the source: every exit but the die("stat") of
\* is_empty inside append_line, and the crash, has closed what was opened
C25_AllButStat ==
    (pc = "exit" /\ status \notin {"die_stat", "crash"}) => open = {}

\* the number of lines of the bytes f, every byte read to the true end: one
\* per newline byte, and one for the first byte
TrueCount(f) == IF f = <<>> THEN 0 ELSE 1 + Cardinality({i \in 1..Len(f) : f[i] = NL})

\* C27: the byte-by-byte operations handle arbitrary byte content: a data
\* byte 0xFF or 0x00 is not taken for the end of the file, so count_lines
\* counts every line up to the true end (here as del_line, ins_line and
\* rep_line use it), and the copy loop of ins_line, which drops nothing,
\* copies every byte of the file (taken where the loop starts with a read,
\* lineno other than 1)
C27_BytesUpToTrueEnd ==
    /\ (op.name \in LineOps /\ pc = "fseek") => lines = TrueCount(target)
    /\ (op.name = "ins_line" /\ op.lineno # 1 /\ pc = "remove") =>
              Len(temp) >= Len(target)

\* the part of C27 that holds in the source: files without a byte 0xFF, a
\* byte 0x00 included, are counted and copied to their end
C27_WithoutFF ==
    (\A i \in 1..Len(target) : target[i] # FF) =>
        /\ (op.name \in LineOps /\ pc = "fseek") => lines = TrueCount(target)
        /\ (op.name = "ins_line" /\ op.lineno # 1 /\ pc = "remove") =>
              Len(temp) >= Len(target)

\* C28: truncation happens only when the number of entries exceeds the cap:
\* truncate_log goes on to rewrite the log (its fseek is reached) only with
\* more than CLOG_BUFFER entries in the log, and a truncation that has run
\* has dropped exactly the oldest count - (CLOG_BUFFER - 10) entries, count
\* being the number of entries the log held
C28_TruncationOnlyAboveCap ==
    /\ (pc = "tfseek" /\ ToolWritten(log)) => Entries(log) > CLOG_BUFFER
    /\ (Truncated /\ ToolWritten(log0)) =>
           /\ IsSuffix(log, log0 \o NewLines)
           /\ Entries(log0 \o NewLines) - Entries(log) =
                  Entries(log0 \o NewLines) - (CLOG_BUFFER - 10)

\* the lines replace reads from the target, as C strings
ReplaceLines == LET cs == FgetsCalls(target, 1) IN {CStr(cs[i]) : i \in 1..Len(cs)}

\* C30: in replace, for every line and every non-empty key (keys may hold CR
\* or LF bytes), the occurrence count passed to string_sub is the number of
\* non-overlapping occurrences of key in the line as string_sub receives it,
\* with the trailing CR/LF bytes stripped; so each of the occur iterations of
\* string_sub finds a match and the invocation does not run into a strstr that
\* returns NULL there
C30_OccurrenceCountMatchesStrippedLine ==
    /\ (op.name = "replace" /\ pc = "copy") =>
           \A line \in ReplaceLines :
               CountOcc(line, op.key, 1, 0) = CountOcc(Strip(line), op.key, 1, 0)
    /\ status # "crash"

\* the part of C30 that holds in the source: for a key without CR and LF
\* bytes the count is that of the stripped line
C30_KeysWithoutTerminators ==
    (op.name = "replace" /\ NoTerminator(op.key)) =>
        /\ pc = "copy" =>
               \A line \in ReplaceLines :
                   CountOcc(line, op.key, 1, 0) = CountOcc(Strip(line), op.key, 1, 0)
        /\ status # "crash"

\* what search is to report for the file f and the key: for every line with
\* an occurrence its 1-based number and its number of occurrences
SearchExpected(f, key) ==
    LET ls == SplitLines(f)
        all == [i \in 1..Len(ls) |-> [n |-> i, cnt |-> Occurrences(ls[i], key)]]
        hit(r) == r.cnt >= 1
    IN  SelectSeq(all, hit)

\* what search has reported: the line numbers and the counts it printed
SearchReported == [i \in 1..Len(shown) |-> [n |-> shown[i].n, cnt |-> shown[i].cnt]]

\* C21: for every verified file and non-empty key, search reports for each
\* line the number of non-overlapping occurrences of key found left to right,
\* lists exactly the lines with at least one occurrence with their 1-based
\* line numbers, and prints a grand total equal to the sum of the per-line
\* counts
C21_SearchCountsPerLine ==
    Done("search") =>
        /\ SearchReported = SearchExpected(F0, op.key)
        /\ printed = SumOcc(SplitLines(F0), op.key)

\* the part of C21 that holds in the source: on a file whose last line ends
\* with a newline the report is as claimed
C21_TerminatedFiles ==
    (Done("search") /\ F0 # <<>> /\ F0[Len(F0)] = NL) =>
        /\ SearchReported = SearchExpected(F0, op.key)
        /\ printed = SumOcc(SplitLines(F0), op.key)

\* the steps of regex_search that work on the target file: verify_lines, the
\* fseek
RegexFileSteps == {"verify", "fseek"}

\* C22: regex_search called with a malformed pattern fails with the
\* invalid-pattern error before any file I/O on the target completes: the
\* pattern is compiled and rejected before the target is scanned by
\* verify_lines or read; so with such a pattern no step on the file is reached
\* and the invocation ends with that error and no other
C22_MalformedPatternFailsFirst ==
    (op.name = "regex_search" /\ regcomp(op.key) # 0) =>
        /\ pc \notin RegexFileSteps
        /\ pc = "exit" => status \in {"badpattern", "die_fopen"}

\* the part of C22 that holds in the source: a malformed pattern is rejected
\* before the file is read line by line, and nothing is printed for it
C22_RejectedBeforeLineLoop ==
    (op.name = "regex_search" /\ regcomp(op.key) # 0) =>
        /\ shown = <<>>
        /\ status # "ok"

\* the line operations
LineCommands == LineOps \cup {"show_line"}

\* C26: every line operation terminates: for every file and every line number
\* parse_num accepts, 0 included, show_line, del_line, ins_line and rep_line,
\* once started, reach their end (success or a reported error)
C26_LineOperationsTerminate ==
    (op.name \in LineCommands /\ pc = "fopen") ~> (pc = "exit")

\* the part of C26 that holds in the source: with a line number of 1 or more
\* every line operation reaches its end
C26_FromLineOne ==
    (op.name \in LineCommands /\ op.lineno >= 1 /\ pc = "fopen") ~> (pc = "exit")

\* where show_line stays: in its first loop, at the end of the file, the line
\* counter not equal to lineno
ShowLineSpins ==
    /\ op.name = "show_line" /\ pc = "skip"
    /\ fpos > Len(target)
    /\ lines # op.lineno

\* the running invocation writes one-line entries: no newline byte in the
\* strings it logs
OneLineEntry == NLs(op.line) = 0 /\ NLs(op.key) = 0 /\ NLs(op.sub) = 0

\* C29: after a change_log call that truncated the log, at least the next 10
\* change_log calls complete without truncating: when truncate_log starts to
\* rewrite the log, either it was never truncated before or 10 calls or more
\* have passed since
C29_TenCallsBetweenTruncations ==
    pc = "tfseek" => (since = -1 \/ since >= 10)

\* the part of C29 that holds in the source: a truncation is never followed
\* by another within 10 calls that write one-line entries
C29_OneLineEntries ==
    (pc = "tfseek" /\ OneLineEntry) => (since = -1 \/ since >= 10)

\* every call after the one that truncated has written a one-line entry and
\* none of them has truncated
CallsWithoutTruncation == OneLineEntry /\ since = MaxRuns - 1

====
